---- MODULE Spec2Model ----
(***************************************************************************)
(* Model of the template vacuum entity of                                  *)
(* homeassistant/components/template/vacuum.py: the three reconciliation   *)
(* callbacks (_update_state, _update_battery_level, _update_fan_speed),    *)
(* the seven action coroutines and the script runs they await.             *)
(***************************************************************************)
EXTENDS Integers, Sequences, FiniteSets

VARIABLES self, running, last, protect, media, listing, overkiz

vars == <<self, running, last, protect, media, listing, overkiz>>

(***************************************************************************)
(* Python values.  A value is a record [kind, s, n]: a str carries its     *)
(* characters in s, an int its value in n, a float its value in tenths in  *)
(* n, a bool 1 for True and 0 for False in n; None, a list and a           *)
(* TemplateError instance carry nothing.                                   *)
(***************************************************************************)
None == [kind |-> "NoneType", s |-> << >>, n |-> 0]

PyStr(cs) == [kind |-> "str", s |-> cs, n |-> 0]

PyInt(i) == [kind |-> "int", s |-> << >>, n |-> i]

PyFloat(tenths) == [kind |-> "float", s |-> << >>, n |-> tenths]

PyBool(b) == [kind |-> "bool", s |-> << >>, n |-> IF b THEN 1 ELSE 0]

PyList == [kind |-> "list", s |-> << >>, n |-> 0]

TemplateError == [kind |-> "TemplateError", s |-> << >>, n |-> 0]

\* isinstance(v, TemplateError)
IsTemplateError(v) == v.kind = "TemplateError"

\* bool is a subclass of int: True and False are the numbers 1 and 0.
IsNumber(v) == v.kind \in {"bool", "int", "float"}

\* The value of a number in tenths.
Tenths(v) == IF v.kind = "float" THEN v.n ELSE v.n * 10

\* Python's ==: two numbers (bool, int, float) compare by value, other
\* values of one kind by content, anything else is unequal.
PyEq(a, b) ==
    \/ IsNumber(a) /\ IsNumber(b) /\ Tenths(a) = Tenths(b)
    \/ a.kind = b.kind /\ a.s = b.s /\ a.n = b.n

\* Python's `v in lst` on a list: some element equals v.
PyIn(v, lst) == \E i \in 1..Len(lst) : PyEq(v, lst[i])

(***************************************************************************)
(* int(x) as _update_battery_level uses it.  The result is                 *)
(* [exc |-> "", val |-> i] or [exc |-> the exception raised, val |-> 0].   *)
(***************************************************************************)
\* The characters int() skips around a number: space, tab, line feed,
\* carriage return, form feed, vertical tab (U+000B), next line (U+0085)
\* and no-break space (U+00A0).  The separators U+001C..U+001F, of which
\* str.isspace() is true, are not skipped.  Python also skips the spaces
\* above U+00FF (U+1680, U+2000..U+200A, U+2028, U+2029, U+202F, U+205F,
\* U+3000), which a string here cannot hold.
IsSpace(c) ==
    c \in {" ", "\t", "\n", "\r", "\f", "", "", " "}

IsDigit(c) == c \in {"0", "1", "2", "3", "4", "5", "6", "7", "8", "9"}

DigitVal(c) ==
    CASE c = "0" -> 0 [] c = "1" -> 1 [] c = "2" -> 2 [] c = "3" -> 3
      [] c = "4" -> 4 [] c = "5" -> 5 [] c = "6" -> 6 [] c = "7" -> 7
      [] c = "8" -> 8 [] c = "9" -> 9

RECURSIVE lstrip(_)
lstrip(cs) ==
    IF cs # << >> /\ IsSpace(Head(cs)) THEN lstrip(Tail(cs)) ELSE cs

RECURSIVE rstrip(_)
rstrip(cs) ==
    IF cs # << >> /\ IsSpace(cs[Len(cs)])
    THEN rstrip(SubSeq(cs, 1, Len(cs) - 1))
    ELSE cs

strip(cs) == rstrip(lstrip(cs))

\* A decimal literal body: digits, with single underscores between digits.
IsDecimal(cs) ==
    /\ cs # << >>
    /\ IsDigit(cs[1])
    /\ IsDigit(cs[Len(cs)])
    /\ \A i \in 1..Len(cs) : IsDigit(cs[i]) \/ cs[i] = "_"
    /\ \A i \in 1..(Len(cs) - 1) : ~(cs[i] = "_" /\ cs[i + 1] = "_")

RECURSIVE DecimalVal(_, _)
DecimalVal(cs, acc) ==
    IF cs = << >> THEN acc
    ELSE IF Head(cs) = "_" THEN DecimalVal(Tail(cs), acc)
    ELSE DecimalVal(Tail(cs), acc * 10 + DigitVal(Head(cs)))

IntOk(i) == [exc |-> "", val |-> i]

IntRaises(e) == [exc |-> e, val |-> 0]

\* int(str): surrounding whitespace is dropped, one sign is allowed.
IntOfStr(cs) ==
    LET t == strip(cs)
        signed == t # << >> /\ Head(t) \in {"+", "-"}
        body == IF signed THEN Tail(t) ELSE t
        sign == IF signed /\ Head(t) = "-" THEN -1 ELSE 1
    IN IF IsDecimal(body) THEN IntOk(sign * DecimalVal(body, 0))
       ELSE IntRaises("ValueError")

\* int(float) truncates toward zero.
IntOfFloat(tenths) ==
    IF tenths >= 0 THEN IntOk(tenths \div 10) ELSE IntOk(-((-tenths) \div 10))

\* int(True) is 1 and int(False) is 0.
int(x) ==
    CASE x.kind \in {"int", "bool"} -> IntOk(x.n)
      [] x.kind = "str" -> IntOfStr(x.s)
      [] x.kind = "float" -> IntOfFloat(x.n)
      [] OTHER -> IntRaises("TypeError")

(***************************************************************************)
(* Constants imported by vacuum.py.                                        *)
(***************************************************************************)
STATE_CLEANING == PyStr(<<"c", "l", "e", "a", "n", "i", "n", "g">>)

STATE_DOCKED == PyStr(<<"d", "o", "c", "k", "e", "d">>)

STATE_PAUSED == PyStr(<<"p", "a", "u", "s", "e", "d">>)

STATE_IDLE == PyStr(<<"i", "d", "l", "e">>)

STATE_RETURNING == PyStr(<<"r", "e", "t", "u", "r", "n", "i", "n", "g">>)

STATE_ERROR == PyStr(<<"e", "r", "r", "o", "r">>)

STATE_UNKNOWN == PyStr(<<"u", "n", "k", "n", "o", "w", "n">>)

\* Mutant: the list of valid states lacks STATE_ERROR.
_VALID_STATES_without_error ==
    <<STATE_CLEANING, STATE_DOCKED, STATE_PAUSED, STATE_IDLE, STATE_RETURNING>>

_VALID_STATES ==
    <<STATE_CLEANING, STATE_DOCKED, STATE_PAUSED, STATE_IDLE, STATE_RETURNING,
      STATE_ERROR>>

SERVICE_START == "start"

SERVICE_PAUSE == "pause"

SERVICE_STOP == "stop"

SERVICE_RETURN_TO_BASE == "return_to_base"

SERVICE_CLEAN_SPOT == "clean_spot"

SERVICE_LOCATE == "locate"

SERVICE_SET_FAN_SPEED == "set_fan_speed"

OptionalServices ==
    {SERVICE_PAUSE, SERVICE_STOP, SERVICE_RETURN_TO_BASE, SERVICE_CLEAN_SPOT,
     SERVICE_LOCATE, SERVICE_SET_FAN_SPEED}

(***************************************************************************)
(* TemplateVacuum.__init__.  A configuration says which templates and      *)
(* which optional action scripts are present and lists the fan speeds; a   *)
(* template or script attribute is TRUE when the object is there and FALSE *)
(* when the attribute is None.                                             *)
(***************************************************************************)
\* Mutant: the stop block sets the pause flag (the stop flag is never set).
__init___stop_sets_pause(config) ==
    [_template |-> config.value_template,
     _battery_level_template |-> config.battery_level_template,
     _fan_speed_template |-> config.fan_speed_template,
     _availability_template |-> config.availability_template,
     _start_script |-> TRUE,
     _pause_script |-> SERVICE_PAUSE \in config.services,
     _stop_script |-> SERVICE_STOP \in config.services,
     _return_to_base_script |-> SERVICE_RETURN_TO_BASE \in config.services,
     _clean_spot_script |-> SERVICE_CLEAN_SPOT \in config.services,
     _locate_script |-> SERVICE_LOCATE \in config.services,
     _set_fan_speed_script |-> SERVICE_SET_FAN_SPEED \in config.services,
     _supported_features |->
         {"SUPPORT_START"}
         \cup (IF SERVICE_PAUSE \in config.services
               THEN {"SUPPORT_PAUSE"} ELSE {})
         \cup (IF SERVICE_STOP \in config.services
               THEN {"SUPPORT_PAUSE"} ELSE {})
         \cup (IF SERVICE_RETURN_TO_BASE \in config.services
               THEN {"SUPPORT_RETURN_HOME"} ELSE {})
         \cup (IF SERVICE_CLEAN_SPOT \in config.services
               THEN {"SUPPORT_CLEAN_SPOT"} ELSE {})
         \cup (IF SERVICE_LOCATE \in config.services
               THEN {"SUPPORT_LOCATE"} ELSE {})
         \cup (IF SERVICE_SET_FAN_SPEED \in config.services
               THEN {"SUPPORT_FAN_SPEED"} ELSE {})
         \cup (IF config.value_template THEN {"SUPPORT_STATE"} ELSE {})
         \cup (IF config.battery_level_template
               THEN {"SUPPORT_BATTERY"} ELSE {}),
     _state |-> None,
     _battery_level |-> None,
     _fan_speed |-> None,
     _fan_speed_list |-> config.fan_speeds,
     _attr_available |-> TRUE]

__init__(config) ==
    [_template |-> config.value_template,
     _battery_level_template |-> config.battery_level_template,
     _fan_speed_template |-> config.fan_speed_template,
     _availability_template |-> config.availability_template,
     _start_script |-> TRUE,
     _pause_script |-> SERVICE_PAUSE \in config.services,
     _stop_script |-> SERVICE_STOP \in config.services,
     _return_to_base_script |-> SERVICE_RETURN_TO_BASE \in config.services,
     _clean_spot_script |-> SERVICE_CLEAN_SPOT \in config.services,
     _locate_script |-> SERVICE_LOCATE \in config.services,
     _set_fan_speed_script |-> SERVICE_SET_FAN_SPEED \in config.services,
     _supported_features |->
         {"SUPPORT_START"}
         \cup (IF SERVICE_PAUSE \in config.services
               THEN {"SUPPORT_PAUSE"} ELSE {})
         \cup (IF SERVICE_STOP \in config.services
               THEN {"SUPPORT_STOP"} ELSE {})
         \cup (IF SERVICE_RETURN_TO_BASE \in config.services
               THEN {"SUPPORT_RETURN_HOME"} ELSE {})
         \cup (IF SERVICE_CLEAN_SPOT \in config.services
               THEN {"SUPPORT_CLEAN_SPOT"} ELSE {})
         \cup (IF SERVICE_LOCATE \in config.services
               THEN {"SUPPORT_LOCATE"} ELSE {})
         \cup (IF SERVICE_SET_FAN_SPEED \in config.services
               THEN {"SUPPORT_FAN_SPEED"} ELSE {})
         \cup (IF config.value_template THEN {"SUPPORT_STATE"} ELSE {})
         \cup (IF config.battery_level_template
               THEN {"SUPPORT_BATTERY"} ELSE {}),
     _state |-> None,
     _battery_level |-> None,
     _fan_speed |-> None,
     _fan_speed_list |-> config.fan_speeds,
     _attr_available |-> TRUE]

(***************************************************************************)
(* What one call of a handler did: the entity after it, the number of      *)
(* _LOGGER.error calls, the exception that escaped it ("" when none), the  *)
(* attributes it assigned, and the script runs it started.                 *)
(***************************************************************************)
Outcome(entity, logged, exc, wrote, run) ==
    [self |-> entity, logged |-> logged, exc |-> exc, wrote |-> wrote,
     run |-> run]

\* TemplateEntity._update_state, which the vacuum's override calls first.
TemplateEntity_update_state(entity, result) ==
    IF entity._availability_template THEN entity
    ELSE [entity EXCEPT !._attr_available = ~IsTemplateError(result)]

\* Mutant: an invalid state is logged and the stored state is left as it was.
_update_state_keeps_prior(entity, result) ==
    LET e0 == TemplateEntity_update_state(entity, result)
        w0 == IF entity._availability_template THEN {} ELSE {"_attr_available"}
    IN IF IsTemplateError(result)
       THEN LET e1 == [e0 EXCEPT !._state = STATE_UNKNOWN]
                e2 == IF ~e1._availability_template
                      THEN [e1 EXCEPT !._attr_available = TRUE]
                      ELSE e1
            IN Outcome(e2, 0, "", w0 \cup {"_state"}, << >>)
       ELSE IF PyIn(result, _VALID_STATES)
       THEN Outcome([e0 EXCEPT !._state = result], 0, "",
                    w0 \cup {"_state"}, << >>)
       ELSE IF PyEq(result, STATE_UNKNOWN)
       THEN Outcome([e0 EXCEPT !._state = None], 0, "",
                    w0 \cup {"_state"}, << >>)
       ELSE Outcome(e0, 1, "", w0, << >>)

\* Mutant: an evaluation failure does not mark the entity available.
_update_state_not_available(entity, result) ==
    LET e0 == TemplateEntity_update_state(entity, result)
        w0 == IF entity._availability_template THEN {} ELSE {"_attr_available"}
    IN IF IsTemplateError(result)
       THEN Outcome([e0 EXCEPT !._state = STATE_UNKNOWN], 0, "",
                    w0 \cup {"_state"}, << >>)
       ELSE IF PyIn(result, _VALID_STATES)
       THEN Outcome([e0 EXCEPT !._state = result], 0, "",
                    w0 \cup {"_state"}, << >>)
       ELSE IF PyEq(result, STATE_UNKNOWN)
       THEN Outcome([e0 EXCEPT !._state = None], 0, "",
                    w0 \cup {"_state"}, << >>)
       ELSE Outcome([e0 EXCEPT !._state = None], 1, "",
                    w0 \cup {"_state"}, << >>)

\* Mutant: a rendered value outside the valid states is stored as it is.
_update_state_stores_invalid(entity, result) ==
    LET e0 == TemplateEntity_update_state(entity, result)
        w0 == IF entity._availability_template THEN {} ELSE {"_attr_available"}
    IN IF IsTemplateError(result)
       THEN LET e1 == [e0 EXCEPT !._state = STATE_UNKNOWN]
                e2 == IF ~e1._availability_template
                      THEN [e1 EXCEPT !._attr_available = TRUE]
                      ELSE e1
            IN Outcome(e2, 0, "", w0 \cup {"_state"}, << >>)
       ELSE IF PyIn(result, _VALID_STATES)
       THEN Outcome([e0 EXCEPT !._state = result], 0, "",
                    w0 \cup {"_state"}, << >>)
       ELSE IF PyEq(result, STATE_UNKNOWN)
       THEN Outcome([e0 EXCEPT !._state = None], 0, "",
                    w0 \cup {"_state"}, << >>)
       ELSE Outcome([e0 EXCEPT !._state = result], 1, "",
                    w0 \cup {"_state"}, << >>)

_update_state(entity, result) ==
    LET e0 == TemplateEntity_update_state(entity, result)
        w0 == IF entity._availability_template THEN {} ELSE {"_attr_available"}
    IN IF IsTemplateError(result)
       THEN LET e1 == [e0 EXCEPT !._state = STATE_UNKNOWN]
                e2 == IF ~e1._availability_template
                      THEN [e1 EXCEPT !._attr_available = TRUE]
                      ELSE e1
            IN Outcome(e2, 0, "", w0 \cup {"_state"}, << >>)
       ELSE IF PyIn(result, _VALID_STATES)
       THEN Outcome([e0 EXCEPT !._state = result], 0, "",
                    w0 \cup {"_state"}, << >>)
       ELSE IF PyEq(result, STATE_UNKNOWN)
       THEN Outcome([e0 EXCEPT !._state = None], 0, "",
                    w0 \cup {"_state"}, << >>)
       ELSE Outcome([e0 EXCEPT !._state = None], 1, "",
                    w0 \cup {"_state"}, << >>)

\* Mutant: the upper end of the range is excluded.
_update_battery_level_exclusive(entity, battery_level) ==
    LET r == int(battery_level)
    IN IF r.exc = "TypeError"
       THEN Outcome(entity, 0, "TypeError", {}, << >>)
       ELSE IF r.exc = "ValueError" \/ ~(0 <= r.val /\ r.val < 100)
       THEN Outcome([entity EXCEPT !._battery_level = None], 1, "",
                    {"_battery_level"}, << >>)
       ELSE Outcome([entity EXCEPT !._battery_level = PyInt(r.val)], 0, "",
                    {"_battery_level"}, << >>)

\* Mutant: an invalid battery level clears the state as well.
_update_battery_level_clears_state(entity, battery_level) ==
    LET r == int(battery_level)
    IN IF r.exc = "TypeError"
       THEN Outcome(entity, 0, "TypeError", {}, << >>)
       ELSE IF r.exc = "ValueError" \/ ~(0 <= r.val /\ r.val <= 100)
       THEN Outcome([entity EXCEPT !._battery_level = None, !._state = None],
                    1, "", {"_battery_level", "_state"}, << >>)
       ELSE Outcome([entity EXCEPT !._battery_level = PyInt(r.val)], 0, "",
                    {"_battery_level"}, << >>)

_update_battery_level(entity, battery_level) ==
    LET r == int(battery_level)
    IN IF r.exc = "TypeError"
       THEN Outcome(entity, 0, "TypeError", {}, << >>)
       ELSE IF r.exc = "ValueError" \/ ~(0 <= r.val /\ r.val <= 100)
       THEN Outcome([entity EXCEPT !._battery_level = None], 1, "",
                    {"_battery_level"}, << >>)
       ELSE Outcome([entity EXCEPT !._battery_level = PyInt(r.val)], 0, "",
                    {"_battery_level"}, << >>)

\* Mutant: the "unknown" token is tested before the fan speed list.
_update_fan_speed_unknown_first(entity, fan_speed) ==
    IF IsTemplateError(fan_speed)
    THEN Outcome([entity EXCEPT !._fan_speed = None, !._state = None], 0, "",
                 {"_fan_speed", "_state"}, << >>)
    ELSE IF PyEq(fan_speed, STATE_UNKNOWN)
    THEN Outcome([entity EXCEPT !._fan_speed = None], 0, "",
                 {"_fan_speed"}, << >>)
    ELSE IF PyIn(fan_speed, entity._fan_speed_list)
    THEN Outcome([entity EXCEPT !._fan_speed = fan_speed], 0, "",
                 {"_fan_speed"}, << >>)
    ELSE Outcome([entity EXCEPT !._fan_speed = None], 1, "",
                 {"_fan_speed"}, << >>)

\* Mutant: a speed outside the list clears the operational state as well.
_update_fan_speed_invalid_clears_state(entity, fan_speed) ==
    IF IsTemplateError(fan_speed)
    THEN Outcome([entity EXCEPT !._fan_speed = None, !._state = None], 0, "",
                 {"_fan_speed", "_state"}, << >>)
    ELSE IF PyIn(fan_speed, entity._fan_speed_list)
    THEN Outcome([entity EXCEPT !._fan_speed = fan_speed], 0, "",
                 {"_fan_speed"}, << >>)
    ELSE IF PyEq(fan_speed, STATE_UNKNOWN)
    THEN Outcome([entity EXCEPT !._fan_speed = None], 0, "",
                 {"_fan_speed"}, << >>)
    ELSE Outcome([entity EXCEPT !._fan_speed = None, !._state = None], 1, "",
                 {"_fan_speed", "_state"}, << >>)

\* Mutant: an evaluation failure clears the fan speed only.
_update_fan_speed_keeps_state(entity, fan_speed) ==
    IF IsTemplateError(fan_speed)
    THEN Outcome([entity EXCEPT !._fan_speed = None], 0, "",
                 {"_fan_speed"}, << >>)
    ELSE IF PyIn(fan_speed, entity._fan_speed_list)
    THEN Outcome([entity EXCEPT !._fan_speed = fan_speed], 0, "",
                 {"_fan_speed"}, << >>)
    ELSE IF PyEq(fan_speed, STATE_UNKNOWN)
    THEN Outcome([entity EXCEPT !._fan_speed = None], 0, "",
                 {"_fan_speed"}, << >>)
    ELSE Outcome([entity EXCEPT !._fan_speed = None], 1, "",
                 {"_fan_speed"}, << >>)

_update_fan_speed(entity, fan_speed) ==
    IF IsTemplateError(fan_speed)
    THEN Outcome([entity EXCEPT !._fan_speed = None, !._state = None], 0, "",
                 {"_fan_speed", "_state"}, << >>)
    ELSE IF PyIn(fan_speed, entity._fan_speed_list)
    THEN Outcome([entity EXCEPT !._fan_speed = fan_speed], 0, "",
                 {"_fan_speed"}, << >>)
    ELSE IF PyEq(fan_speed, STATE_UNKNOWN)
    THEN Outcome([entity EXCEPT !._fan_speed = None], 0, "",
                 {"_fan_speed"}, << >>)
    ELSE Outcome([entity EXCEPT !._fan_speed = None], 1, "",
                 {"_fan_speed"}, << >>)

(***************************************************************************)
(* The action coroutines, up to their await on Script.async_run.  A run    *)
(* is [script, variables, context]: the script that was started, the       *)
(* variables it was given (None when it was given none) and the context    *)
(* keyword argument it was given.                                          *)
(***************************************************************************)
ScriptRun(script, variables) ==
    [script |-> script, variables |-> variables, context |-> "self._context"]

async_start(entity) ==
    Outcome(entity, 0, "", {}, <<ScriptRun(SERVICE_START, None)>>)

async_pause(entity) ==
    IF ~entity._pause_script THEN Outcome(entity, 0, "", {}, << >>)
    ELSE Outcome(entity, 0, "", {}, <<ScriptRun(SERVICE_PAUSE, None)>>)

async_stop(entity) ==
    IF ~entity._stop_script THEN Outcome(entity, 0, "", {}, << >>)
    ELSE Outcome(entity, 0, "", {}, <<ScriptRun(SERVICE_STOP, None)>>)

async_return_to_base(entity) ==
    IF ~entity._return_to_base_script THEN Outcome(entity, 0, "", {}, << >>)
    ELSE Outcome(entity, 0, "", {},
                 <<ScriptRun(SERVICE_RETURN_TO_BASE, None)>>)

async_clean_spot(entity) ==
    IF ~entity._clean_spot_script THEN Outcome(entity, 0, "", {}, << >>)
    ELSE Outcome(entity, 0, "", {}, <<ScriptRun(SERVICE_CLEAN_SPOT, None)>>)

async_locate(entity) ==
    IF ~entity._locate_script THEN Outcome(entity, 0, "", {}, << >>)
    ELSE Outcome(entity, 0, "", {}, <<ScriptRun(SERVICE_LOCATE, None)>>)

\* Mutant: the fan speed list is consulted before the script is looked at.
async_set_fan_speed_validates_first(entity, fan_speed) ==
    IF PyIn(fan_speed, entity._fan_speed_list)
    THEN IF ~entity._set_fan_speed_script
         THEN Outcome([entity EXCEPT !._fan_speed = fan_speed], 0, "",
                      {"_fan_speed"}, << >>)
         ELSE Outcome([entity EXCEPT !._fan_speed = fan_speed], 0, "",
                      {"_fan_speed"},
                      <<ScriptRun(SERVICE_SET_FAN_SPEED, fan_speed)>>)
    ELSE Outcome(entity, 1, "", {}, << >>)

\* Mutant: a speed outside the list is dropped without a diagnostic.
async_set_fan_speed_silent(entity, fan_speed) ==
    IF ~entity._set_fan_speed_script THEN Outcome(entity, 0, "", {}, << >>)
    ELSE IF PyIn(fan_speed, entity._fan_speed_list)
    THEN Outcome([entity EXCEPT !._fan_speed = fan_speed], 0, "",
                 {"_fan_speed"}, <<ScriptRun(SERVICE_SET_FAN_SPEED, fan_speed)>>)
    ELSE Outcome(entity, 0, "", {}, << >>)

\* Mutant: the script is run without the requested speed.
async_set_fan_speed_no_variables(entity, fan_speed) ==
    IF ~entity._set_fan_speed_script THEN Outcome(entity, 0, "", {}, << >>)
    ELSE IF PyIn(fan_speed, entity._fan_speed_list)
    THEN Outcome([entity EXCEPT !._fan_speed = fan_speed], 0, "",
                 {"_fan_speed"}, <<ScriptRun(SERVICE_SET_FAN_SPEED, None)>>)
    ELSE Outcome(entity, 1, "", {}, << >>)

\* Mutant: the requested speed is not checked against the fan speed list.
async_set_fan_speed_unchecked(entity, fan_speed) ==
    IF ~entity._set_fan_speed_script THEN Outcome(entity, 0, "", {}, << >>)
    ELSE Outcome([entity EXCEPT !._fan_speed = fan_speed], 0, "",
                 {"_fan_speed"}, <<ScriptRun(SERVICE_SET_FAN_SPEED, fan_speed)>>)

async_set_fan_speed(entity, fan_speed) ==
    IF ~entity._set_fan_speed_script THEN Outcome(entity, 0, "", {}, << >>)
    ELSE IF PyIn(fan_speed, entity._fan_speed_list)
    THEN Outcome([entity EXCEPT !._fan_speed = fan_speed], 0, "",
                 {"_fan_speed"}, <<ScriptRun(SERVICE_SET_FAN_SPEED, fan_speed)>>)
    ELSE Outcome(entity, 1, "", {}, << >>)

(***************************************************************************)
(* The template bindings of async_added_to_hass that are not callbacks of  *)
(* the vacuum: the availability template's callback, and the battery       *)
(* binding's none_on_template_error, which stores None on an evaluation    *)
(* failure without calling _update_battery_level.                          *)
(***************************************************************************)
_update_available(entity, result) ==
    IF IsTemplateError(result)
    THEN Outcome([entity EXCEPT !._attr_available = TRUE], 0, "",
                 {"_attr_available"}, << >>)
    ELSE Outcome([entity EXCEPT !._attr_available = (result.n # 0)], 0, "",
                 {"_attr_available"}, << >>)

none_on_template_error(entity) ==
    Outcome([entity EXCEPT !._battery_level = None], 0, "",
            {"_battery_level"}, << >>)

(***************************************************************************)
(* Bounds and the inputs the handlers are given.                           *)
(***************************************************************************)
\* Script runs that may be awaited at one time.
MaxRunning == 1

low == PyStr(<<"l", "o", "w">>)

high == PyStr(<<"h", "i", "g", "h">>)

turbo == PyStr(<<"t", "u", "r", "b", "o">>)

\* Configurations the entity is constructed from: every choice of action
\* scripts and fan speed list, with the state and battery templates present
\* or absent independently; the fan speed template comes with the battery
\* template, and an availability template with the state template, the
\* fan speed list <<low, high>> and the start script alone.  The list of
\* numbers [1, 2] (the schema takes any list) comes with every script and
\* the battery and fan speed templates, without a state template.
Configs ==
    {c \in [value_template : BOOLEAN,
            battery_level_template : BOOLEAN,
            fan_speed_template : BOOLEAN,
            availability_template : BOOLEAN,
            services : {{SERVICE_START}, {SERVICE_START} \cup OptionalServices},
            fan_speeds : {<< >>, <<low, high>>, <<low, STATE_UNKNOWN>>,
                          <<PyInt(1), PyInt(2)>>}] :
        /\ c.fan_speed_template = c.battery_level_template
        /\ c.fan_speeds = <<PyInt(1), PyInt(2)>> =>
               /\ ~c.value_template /\ c.fan_speed_template
               /\ c.services # {SERVICE_START}
        /\ c.availability_template =>
               /\ c.value_template /\ c.fan_speeds = <<low, high>>
               /\ c.services = {SERVICE_START}}

\* The six operational-state tokens of the vacuum component.
ValidTokens ==
    {STATE_CLEANING, STATE_DOCKED, STATE_PAUSED, STATE_IDLE, STATE_RETURNING,
     STATE_ERROR}

\* Results the state template may render to: each token, "unknown", other
\* strings, None and an evaluation failure.
StateResults ==
    ValidTokens
    \cup {STATE_UNKNOWN, PyStr(<<"f", "o", "o">>),
          PyStr(<<"I", "d", "l", "e">>), PyStr(<< >>), None, TemplateError}

\* Results the fan speed template may render to; True equals the listed
\* number 1.
FanSpeedResults ==
    {low, high, turbo, STATE_UNKNOWN, PyBool(TRUE), None, TemplateError}

\* Values the battery level template may render to (BatterySpec tries
\* more).
BatteryResults ==
    {PyInt(-1), PyInt(100), PyInt(101)}
    \cup {PyStr(<<"1", "0", "0">>), PyStr(<<"a", "b", "c">>)}
    \cup {PyFloat(1005), None, PyList}

\* Results the availability template may render to.
AvailabilityResults == {PyInt(0), PyInt(1), TemplateError}

\* Fan speeds set_fan_speed may be called with.
FanSpeedArgs == {low, high, turbo, STATE_UNKNOWN, PyBool(TRUE)}

(***************************************************************************)
(* The state machine.  self is the entity; running holds the script runs   *)
(* that action coroutines are awaiting; last describes the most recent     *)
(* handler event: the handler, its argument, whether it returned, is       *)
(* awaiting a script or raised, and what it logged, assigned and ran.      *)
(***************************************************************************)
\* The other components of the repository: the UniFi Protect config entry
\* (protect), the media player device triggers being attached (media), the
\* entity registry with the device triggers last listed from it (listing)
\* and the Overkiz devices with their binary sensors (overkiz).  The
\* template vacuum shares nothing with them.
ProtectEntry(cameras) ==
    [cameras |-> cameras,
     entities |-> << >>,
     last_update_success |-> TRUE,
     loaded |-> FALSE,
     event |-> [op |-> "", camera |-> 0, arg |-> "", was |-> {}]]

NoTriggers == [calls |-> << >>, attached |-> << >>]

Listing(registry) ==
    [registry |-> registry, awaits |-> "", called |-> FALSE,
     device_id |-> "", triggers |-> << >>]

OverkizData(devices) ==
    [devices |-> devices, entities |-> << >>, loaded |-> FALSE]

OthersIdle ==
    /\ protect = ProtectEntry(<< >>)
    /\ media = NoTriggers
    /\ listing = Listing(<< >>)
    /\ overkiz = OverkizData(<< >>)

Event(op, arg, status, exc, logged, wrote, ran) ==
    [op |-> op, arg |-> arg, status |-> status, exc |-> exc,
     logged |-> logged, wrote |-> wrote, ran |-> ran]

Init ==
    /\ \E config \in Configs : self = __init__(config)
    /\ running = << >>
    /\ last = Event("__init__", None, "returned", "", 0, {}, 0)
    /\ OthersIdle

\* A synchronous callback ran to its end (or to the exception it raised).
Callback(op, arg, out) ==
    /\ self' = out.self
    /\ last' = Event(op, arg, IF out.exc = "" THEN "returned" ELSE "raised",
                     out.exc, out.logged, out.wrote, 0)
    /\ UNCHANGED <<running, protect, media, listing, overkiz>>

\* An action coroutine ran until it returned or awaited the script it started.
Call(op, arg, out) ==
    /\ out.run = << >> \/ Len(running) < MaxRunning
    /\ self' = out.self
    /\ IF out.run = << >>
       THEN /\ running' = running
            /\ last' = Event(op, arg, "returned", "", out.logged, out.wrote, 0)
       ELSE /\ running' = Append(running,
                                 [op |-> op, arg |-> arg, run |-> out.run[1],
                                  logged |-> out.logged, wrote |-> out.wrote])
            /\ last' = Event(op, arg, "awaiting", "", out.logged, out.wrote, 1)
    /\ UNCHANGED <<protect, media, listing, overkiz>>

Remove(seq, i) == SubSeq(seq, 1, i - 1) \o SubSeq(seq, i + 1, Len(seq))

UpdateState ==
    /\ self._template
    /\ \E result \in StateResults :
           Callback("_update_state", result, _update_state(self, result))

UpdateFanSpeed ==
    /\ self._fan_speed_template
    /\ \E fan_speed \in FanSpeedResults :
           Callback("_update_fan_speed", fan_speed,
                    _update_fan_speed(self, fan_speed))

UpdateBatteryLevel ==
    /\ self._battery_level_template
    /\ \E battery_level \in BatteryResults :
           Callback("_update_battery_level", battery_level,
                    _update_battery_level(self, battery_level))

BatteryTemplateError ==
    /\ self._battery_level_template
    /\ Callback("none_on_template_error", TemplateError,
                none_on_template_error(self))

UpdateAvailable ==
    /\ self._availability_template
    /\ \E result \in AvailabilityResults :
           Callback("_update_available", result,
                    _update_available(self, result))

Start == Call("async_start", None, async_start(self))

Pause == Call("async_pause", None, async_pause(self))

Stop == Call("async_stop", None, async_stop(self))

ReturnToBase ==
    Call("async_return_to_base", None, async_return_to_base(self))

CleanSpot == Call("async_clean_spot", None, async_clean_spot(self))

Locate == Call("async_locate", None, async_locate(self))

SetFanSpeed ==
    \E fan_speed \in FanSpeedArgs :
        Call("async_set_fan_speed", fan_speed,
             async_set_fan_speed(self, fan_speed))

\* Mutant: set_fan_speed stores the requested speed again when it resumes.
ScriptReturns_reapplies ==
    \E i \in 1..Len(running) :
        /\ running' = Remove(running, i)
        /\ last' = Event(running[i].op, running[i].arg, "returned", "",
                         running[i].logged, running[i].wrote, 1)
        /\ self' = IF running[i].op = "async_set_fan_speed"
                   THEN [self EXCEPT !._fan_speed = running[i].arg]
                   ELSE self
        /\ UNCHANGED <<protect, media, listing, overkiz>>

\* Script.async_run returned: the coroutine awaiting it resumes and returns.
ScriptReturns ==
    \E i \in 1..Len(running) :
        /\ running' = Remove(running, i)
        /\ last' = Event(running[i].op, running[i].arg, "returned", "",
                         running[i].logged, running[i].wrote, 1)
        /\ UNCHANGED <<self, protect, media, listing, overkiz>>

\* Script.async_run raised: the exception leaves the coroutine awaiting it.
ScriptRaises ==
    \E i \in 1..Len(running) :
        /\ running' = Remove(running, i)
        /\ last' = Event(running[i].op, running[i].arg, "raised", "Exception",
                         running[i].logged, running[i].wrote, 1)
        /\ UNCHANGED <<self, protect, media, listing, overkiz>>

Next ==
    \/ UpdateState
    \/ UpdateFanSpeed
    \/ UpdateBatteryLevel
    \/ BatteryTemplateError
    \/ UpdateAvailable
    \/ Start
    \/ Pause
    \/ Stop
    \/ ReturnToBase
    \/ CleanSpot
    \/ Locate
    \/ SetFanSpeed
    \/ ScriptReturns
    \/ ScriptRaises

Spec == Init /\ [][Next]_vars

(***************************************************************************)
(* The battery reconciliation on its own, over every integer around the    *)
(* valid range and a wider choice of strings, floats and other values.     *)
(***************************************************************************)
\* Integers are tried from -BatteryMargin to 100 + BatteryMargin.
BatteryMargin == 3

BatteryValues ==
    {PyInt(b) : b \in (0 - BatteryMargin)..(100 + BatteryMargin)}
    \cup {PyStr(<<"1", "0", "0">>), PyStr(<<" ", "7", " ">>), PyStr(<<"-", "1">>), PyStr(<<"a", "b", "c">>), PyStr(<<"1", "_", "0", "_", "0">>), PyStr(<<"5", ".", "5">>),
          PyStr(<<"+", "0">>), PyStr(<<"1", "_", "_", "0">>), PyStr(<<"1", "0", "1">>), PyStr(<<"-", " ", "5">>), PyStr(<< >>)}
    \cup {PyFloat(75), PyFloat(-5), PyFloat(-15), PyFloat(1005), PyFloat(1010)}
    \cup {PyStr(<<"7", "\r">>), PyStr(<<"\f", "7">>), PyStr(<<"", "7">>)}
    \cup {PyStr(<<"", "7">>), PyStr(<<"7", "">>), PyStr(<<" ", "7", "">>)}
    \cup {PyBool(TRUE), PyBool(FALSE)}
    \cup {None, PyList}

BatteryInit ==
    /\ \E config \in Configs :
           /\ config.battery_level_template
           /\ self = __init__(config)
    /\ running = << >>
    /\ last = Event("__init__", None, "returned", "", 0, {}, 0)
    /\ OthersIdle

BatteryUpdate ==
    \E battery_level \in BatteryValues :
        Callback("_update_battery_level", battery_level,
                 _update_battery_level(self, battery_level))

BatteryNext ==
    \/ BatteryUpdate
    \/ BatteryTemplateError

BatterySpec == BatteryInit /\ [][BatteryNext]_vars

(***************************************************************************)
(* Properties.                                                             *)
(***************************************************************************)
ReconciledFanSpeed(fan_speed) ==
    /\ last.op = "_update_fan_speed"
    /\ last.arg = fan_speed

\* C1: in every reachable state the fan speed is None or a member of the
\* configured fan speed list, whatever reconciliations and action calls
\* (set_fan_speed with any argument included) have run.
C1_FanSpeedInCatalog ==
    self._fan_speed = None \/ PyIn(self._fan_speed, self._fan_speed_list)

\* C1 witness: a set_fan_speed call stored the requested speed and its
\* script run returned.
C1_Witness ==
    /\ last.op = "async_set_fan_speed"
    /\ last.status = "returned"
    /\ last.ran = 1
    /\ self._fan_speed = last.arg
    /\ self._fan_speed # None

\* C2: whenever the fan speed reconciliation was handed an evaluation
\* failure, the fan speed and the operational state are both None when it
\* returns.
C2_FanSpeedFailureClearsBoth ==
    ReconciledFanSpeed(TemplateError) =>
        /\ self._fan_speed = None
        /\ self._state = None
        /\ last.status = "returned"

\* C2 witness: a fan speed evaluation failure was reconciled on an entity
\* that also reconciles its state, and both fields are None.
C2_Witness ==
    /\ ReconciledFanSpeed(TemplateError)
    /\ self._template
    /\ self._state = None
    /\ self._fan_speed = None

\* C3: no reconciliation handler raises, whatever it is handed, and the
\* battery level it leaves is None or an integer from 0 to 100.
C3_ReconciliationNeverRaises ==
    last.op \in {"_update_state", "_update_battery_level", "_update_fan_speed",
                 "none_on_template_error"} =>
        /\ last.status = "returned"
        /\ last.exc = ""
        /\ \/ self._battery_level = None
           \/ /\ self._battery_level.kind = "int"
              /\ 0 <= self._battery_level.n
              /\ self._battery_level.n <= 100

\* C4: a set_fan_speed call whose script run raised has not assigned the
\* requested value to the fan speed.
C4_FanSpeedSetOnlyOnSuccess ==
    (last.op = "async_set_fan_speed" /\ last.status = "raised") =>
        "_fan_speed" \notin last.wrote

\* C5 as claimed: reconciling the "unknown" token leaves the fan speed None
\* for every configured fan speed list.
C5_UnknownAlwaysNone ==
    ReconciledFanSpeed(STATE_UNKNOWN) => self._fan_speed = None

\* C5 as amended: reconciling the "unknown" token leaves the fan speed None
\* unless the fan speed list contains that token, in which case the token is
\* adopted like any other listed speed.
C5_UnknownNoneUnlessListed ==
    ReconciledFanSpeed(STATE_UNKNOWN) =>
        /\ last.status = "returned"
        /\ IF \E i \in 1..Len(self._fan_speed_list) :
                  self._fan_speed_list[i] = STATE_UNKNOWN
           THEN self._fan_speed = STATE_UNKNOWN
           ELSE self._fan_speed = None

\* C5 witness: the "unknown" token was reconciled against a non-empty list
\* that does not contain it, and the fan speed is None.
C5_Witness ==
    /\ ReconciledFanSpeed(STATE_UNKNOWN)
    /\ self._fan_speed_list = <<low, high>>
    /\ self._fan_speed = None

\* C6: battery reconciliation of an integer b stores b when 0 <= b <= 100,
\* and otherwise stores None and logs one diagnostic.
C6_BatteryIntegerRange ==
    (last.op = "_update_battery_level" /\ last.arg.kind = "int") =>
        /\ last.status = "returned"
        /\ IF 0 <= last.arg.n /\ last.arg.n <= 100
           THEN self._battery_level = PyInt(last.arg.n) /\ last.logged = 0
           ELSE self._battery_level = None /\ last.logged = 1

\* C6 witness: the integer 100 was reconciled and is the battery level.
C6_Witness ==
    /\ last.op = "_update_battery_level"
    /\ last.arg = PyInt(100)
    /\ self._battery_level = PyInt(100)

\* C7: state reconciliation of a string that is neither a valid token nor
\* "unknown" leaves the operational state None and logs exactly one
\* diagnostic.
C7_InvalidStateRejected ==
    (/\ last.op = "_update_state"
     /\ last.arg.kind = "str"
     /\ last.arg \notin ValidTokens
     /\ last.arg # STATE_UNKNOWN) =>
        /\ self._state = None
        /\ last.logged = 1
        /\ last.status = "returned"

\* C7 witness: the string "Idle", which differs from the token "idle" in
\* case only, was reconciled and rejected.
C7_Witness ==
    /\ last.op = "_update_state"
    /\ last.arg = PyStr(<<"I", "d", "l", "e">>)
    /\ self._state = None
    /\ last.logged = 1

\* C8: state reconciliation of a valid token stores exactly that token, and
\* of the "unknown" token stores None; neither logs a diagnostic.
C8_ValidStateAdopted ==
    last.op = "_update_state" =>
        /\ last.arg \in ValidTokens =>
               self._state = last.arg /\ last.logged = 0
        /\ last.arg = STATE_UNKNOWN =>
               self._state = None /\ last.logged = 0

\* C8 witness: the token "error" was reconciled and is the operational state.
C8_Witness ==
    /\ last.op = "_update_state"
    /\ last.arg = STATE_ERROR
    /\ self._state = STATE_ERROR
    /\ last.logged = 0

\* C9: a state reconciliation handed an evaluation failure stores the string
\* "unknown" (not None), marks the entity available when no availability
\* template is configured, and changes neither fan speed nor battery level.
C9_StateFailure ==
    [][(last'.op = "_update_state" /\ IsTemplateError(last'.arg)) =>
           /\ self'._state = STATE_UNKNOWN
           /\ self'._state # None
           /\ ~self._availability_template => self'._attr_available
           /\ self'._fan_speed = self._fan_speed
           /\ self'._battery_level = self._battery_level
           /\ last'.status = "returned"]_vars

\* C9 witness: a state evaluation failure was reconciled with no availability
\* template, after a fan speed and a battery level had been stored.
C9_Witness ==
    /\ last.op = "_update_state"
    /\ IsTemplateError(last.arg)
    /\ ~self._availability_template
    /\ self._attr_available
    /\ self._state = STATE_UNKNOWN
    /\ self._fan_speed = low
    /\ self._battery_level = PyInt(100)

\* C10: fan speed reconciliation of a listed string stores it; of a string
\* that is neither listed nor "unknown" stores None and logs a diagnostic;
\* the operational state is the same before and after in both cases.
C10_FanSpeedReconciled ==
    [][(last'.op = "_update_fan_speed" /\ last'.arg.kind = "str") =>
           LET f == last'.arg
               listed == \E i \in 1..Len(self._fan_speed_list) :
                             self._fan_speed_list[i] = f
           IN /\ listed => self'._fan_speed = f /\ self'._state = self._state
              /\ (~listed /\ f # STATE_UNKNOWN) =>
                     /\ self'._fan_speed = None
                     /\ last'.logged = 1
                     /\ self'._state = self._state]_vars

\* C10 witness: a speed outside the list was reconciled and rejected while
\* the operational state stayed "cleaning".
C10_Witness ==
    /\ ReconciledFanSpeed(turbo)
    /\ self._fan_speed = None
    /\ last.logged = 1
    /\ self._state = STATE_CLEANING

\* The script attribute an action coroutine looks at.
BoundFor(entity, op) ==
    CASE op = "async_start" -> entity._start_script
      [] op = "async_pause" -> entity._pause_script
      [] op = "async_stop" -> entity._stop_script
      [] op = "async_return_to_base" -> entity._return_to_base_script
      [] op = "async_clean_spot" -> entity._clean_spot_script
      [] op = "async_locate" -> entity._locate_script
      [] op = "async_set_fan_speed" -> entity._set_fan_speed_script

\* The service whose script an action coroutine is to run.
ServiceFor(op) ==
    CASE op = "async_start" -> "start"
      [] op = "async_pause" -> "pause"
      [] op = "async_stop" -> "stop"
      [] op = "async_return_to_base" -> "return_to_base"
      [] op = "async_clean_spot" -> "clean_spot"
      [] op = "async_locate" -> "locate"
      [] op = "async_set_fan_speed" -> "set_fan_speed"

PlainActionOps ==
    {"async_start", "async_pause", "async_stop", "async_return_to_base",
     "async_clean_spot", "async_locate"}

ActionOps == PlainActionOps \cup {"async_set_fan_speed"}

\* A step in which an action coroutine was called (not one in which a script
\* run it awaited came back).
Called(op) ==
    /\ last'.op = op
    /\ \/ last'.status = "awaiting"
       \/ last'.status = "returned" /\ last'.ran = 0

\* C11: calling pause, stop, return_to_base, clean_spot, locate or
\* set_fan_speed (with any argument) while its script is unbound starts no
\* script run, raises nothing, logs nothing and leaves the entity as it was.
C11_UnboundActionNoOp ==
    [][\A op \in ActionOps \ {"async_start"} :
           (Called(op) /\ ~BoundFor(self, op)) =>
               /\ running' = running
               /\ self' = self
               /\ last'.status = "returned"
               /\ last'.exc = ""
               /\ last'.ran = 0
               /\ last'.logged = 0]_vars

\* C11 witness: set_fan_speed was called with a speed outside the list on an
\* entity without a set_fan_speed script, and returned.
C11_Witness ==
    /\ last.op = "async_set_fan_speed"
    /\ last.arg = turbo
    /\ ~self._set_fan_speed_script
    /\ self._fan_speed_list = <<low, high>>
    /\ last.status = "returned"
    /\ running = << >>

\* C12: set_fan_speed with the script bound and a speed outside the fan speed
\* list starts no script run, leaves the entity as it was and logs exactly
\* one diagnostic.
C12_InvalidFanSpeedRejected ==
    [][(/\ Called("async_set_fan_speed")
        /\ self._set_fan_speed_script
        /\ ~PyIn(last'.arg, self._fan_speed_list)) =>
           /\ running' = running
           /\ self' = self
           /\ last'.status = "returned"
           /\ last'.ran = 0
           /\ last'.logged = 1]_vars

\* C12 witness: set_fan_speed("turbo") was called against the list
\* <<low, high>> with the script bound; the fan speed is still "low".
C12_Witness ==
    /\ last.op = "async_set_fan_speed"
    /\ last.arg = turbo
    /\ self._set_fan_speed_script
    /\ self._fan_speed_list = <<low, high>>
    /\ self._fan_speed = low
    /\ last.logged = 1
    /\ last.ran = 0

(***************************************************************************)
(* The supported features.  FeatureSpec constructs the entity from         *)
(* configurations in which each optional script is present alone, all are  *)
(* present or none is, and the state, battery and fan speed templates are  *)
(* present or absent independently; the handlers are those of Spec.        *)
(***************************************************************************)
FeatureConfigs ==
    {c \in [value_template : BOOLEAN,
            battery_level_template : BOOLEAN,
            fan_speed_template : BOOLEAN,
            availability_template : BOOLEAN,
            services : {{SERVICE_START}, {SERVICE_START} \cup OptionalServices}
                       \cup {{SERVICE_START, s} : s \in OptionalServices},
            fan_speeds : {<<low, high>>}] :
        /\ c.fan_speed_template => c.services = {SERVICE_START}
        /\ c.availability_template =>
               /\ c.value_template /\ ~c.battery_level_template
               /\ c.services = {SERVICE_START}}

FeatureInit ==
    /\ \E config \in FeatureConfigs : self = __init__(config)
    /\ running = << >>
    /\ last = Event("__init__", None, "returned", "", 0, {}, 0)
    /\ OthersIdle

FeatureSpec == FeatureInit /\ [][Next]_vars

\* The flags the claim gives for an entity's scripts and templates.
FlagsFor(entity) ==
    {"SUPPORT_START"}
    \cup {f \in {"SUPPORT_PAUSE"} : entity._pause_script}
    \cup {f \in {"SUPPORT_STOP"} : entity._stop_script}
    \cup {f \in {"SUPPORT_RETURN_HOME"} : entity._return_to_base_script}
    \cup {f \in {"SUPPORT_CLEAN_SPOT"} : entity._clean_spot_script}
    \cup {f \in {"SUPPORT_LOCATE"} : entity._locate_script}
    \cup {f \in {"SUPPORT_FAN_SPEED"} : entity._set_fan_speed_script}
    \cup {f \in {"SUPPORT_STATE"} : entity._template}
    \cup {f \in {"SUPPORT_BATTERY"} : entity._battery_level_template}

\* C13: in every reachable state the supported features are Start, plus
\* Pause, Stop, ReturnHome, CleanSpot, Locate and FanSpeed exactly for the
\* configured scripts, State exactly when a state template is configured and
\* Battery exactly when a battery template is configured; and no step
\* changes them.
C13_FeaturesFixed ==
    /\ [](self._supported_features = FlagsFor(self))
    /\ [][self'._supported_features = self._supported_features]_vars

\* C13 witness: an entity with only the start and stop scripts, a state
\* template and no battery template has reconciled its state; its features
\* are still Start, Stop and State.
C13_Witness ==
    /\ self._stop_script /\ ~self._pause_script /\ ~self._locate_script
    /\ self._template /\ ~self._battery_level_template
    /\ self._supported_features =
           {"SUPPORT_START", "SUPPORT_STOP", "SUPPORT_STATE"}
    /\ last.op = "_update_state"
    /\ self._state = STATE_CLEANING

\* A step in which a coroutine resumed from the script run it awaited.
Resumed(op) ==
    /\ last'.op = op
    /\ last'.status \in {"returned", "raised"}
    /\ last'.ran = 1

\* C14: a call of an action whose script is bound (for set_fan_speed: bound
\* and the speed is in the fan speed list) starts exactly one script run, of
\* that action's own script, with the entity's context; set_fan_speed hands
\* it the requested speed and the other actions hand it no variables.  When
\* the run comes back the coroutine starts no further run.
C14_OwnScriptOnce ==
    [][\A op \in ActionOps :
           /\ (/\ Called(op)
               /\ BoundFor(self, op)
               /\ op = "async_set_fan_speed" =>
                      PyIn(last'.arg, self._fan_speed_list)) =>
                  /\ last'.status = "awaiting"
                  /\ last'.ran = 1
                  /\ Len(running') = Len(running) + 1
                  /\ SubSeq(running', 1, Len(running)) = running
                  /\ running'[Len(running')].op = op
                  /\ running'[Len(running')].run =
                         [script |-> ServiceFor(op),
                          variables |-> IF op = "async_set_fan_speed"
                                        THEN last'.arg ELSE None,
                          context |-> "self._context"]
           /\ Resumed(op) => Len(running') = Len(running) - 1]_vars

\* C14 witness: set_fan_speed("high") is awaiting the set_fan_speed script,
\* which was given "high".
C14_Witness ==
    /\ last.op = "async_set_fan_speed"
    /\ last.status = "awaiting"
    /\ last.arg = high
    /\ Len(running) = 1
    /\ running[1].run.script = SERVICE_SET_FAN_SPEED
    /\ running[1].run.variables = high

(***************************************************************************)
(* UniFi Protect cameras.  The bootstrap lists the cameras; a camera is     *)
(* [channels, state, is_recording]: for each channel whether RTSP is        *)
(* enabled on it, the connection state the NVR reports and whether the      *)
(* camera is recording.  An entity is                                       *)
(* [camera, channel, secure, stream, enabled_default, disabled, state]: the *)
(* camera's index, the channel id (from 0), whether it is the RTSPS entity, *)
(* whether it has a stream, whether the registry enables it by default,     *)
(* whether the registry has it disabled now, and its state in the state     *)
(* machine ("" while it has none: a disabled entity is not added).          *)
(***************************************************************************)
Camera(channels) ==
    [channels |-> channels, state |-> "CONNECTED", is_recording |-> FALSE]

\* An entity is registered disabled unless it is enabled by default.
ProtectCamera(camera, channel, is_default, secure, disable_stream) ==
    [camera |-> camera, channel |-> channel, secure |-> secure,
     stream |-> ~disable_stream, enabled_default |-> is_default,
     disabled |-> ~is_default, state |-> ""]

RECURSIVE ChannelEntities_all_default(_, _, _, _)
RECURSIVE ChannelEntities(_, _, _, _)
\* Mutant: every RTSPS entity is enabled by default.
ChannelEntities_all_default(camera, channels, j, is_default) ==
    IF j > Len(channels)
    THEN IF is_default
         THEN <<ProtectCamera(camera, 0, TRUE, TRUE, TRUE)>>
         ELSE << >>
    ELSE IF channels[j]
    THEN <<ProtectCamera(camera, j - 1, TRUE, TRUE, FALSE),
           ProtectCamera(camera, j - 1, FALSE, FALSE, FALSE)>>
         \o ChannelEntities_all_default(camera, channels, j + 1, FALSE)
    ELSE ChannelEntities_all_default(camera, channels, j + 1, is_default)

\* The entities of one camera, from channel index j on.
ChannelEntities(camera, channels, j, is_default) ==
    IF j > Len(channels)
    THEN IF is_default
         THEN <<ProtectCamera(camera, 0, TRUE, TRUE, TRUE)>>
         ELSE << >>
    ELSE IF channels[j]
    THEN <<ProtectCamera(camera, j - 1, is_default, TRUE, FALSE),
           ProtectCamera(camera, j - 1, FALSE, FALSE, FALSE)>>
         \o ChannelEntities(camera, channels, j + 1, FALSE)
    ELSE ChannelEntities(camera, channels, j + 1, is_default)

\* The entities async_setup_entry creates for the cameras from index i on.
RECURSIVE async_setup_entry(_, _)
async_setup_entry(cameras, i) ==
    IF i > Len(cameras) THEN << >>
    ELSE (IF cameras[i].channels = << >> THEN << >>
          ELSE ChannelEntities(i, cameras[i].channels, 1, TRUE))
         \o async_setup_entry(cameras, i + 1)

\* Mutant: an entity that became unavailable stays unavailable.
_async_update_device_from_protect_sticky(entry, entity) ==
    IF entity.disabled THEN entity
    ELSE [entity EXCEPT !.state =
              IF /\ entry.last_update_success
                 /\ entry.cameras[entity.camera].state = "CONNECTED"
                 /\ entity.state # "unavailable"
              THEN IF entry.cameras[entity.camera].is_recording
                   THEN "recording" ELSE "idle"
              ELSE "unavailable"]

\* The state an entity writes after an update: available while the last
\* update succeeded and its camera is connected, and then 'recording' while
\* the camera records and 'idle' otherwise.
_async_update_device_from_protect(entry, entity) ==
    IF entity.disabled THEN entity
    ELSE [entity EXCEPT !.state =
              IF /\ entry.last_update_success
                 /\ entry.cameras[entity.camera].state = "CONNECTED"
              THEN IF entry.cameras[entity.camera].is_recording
                   THEN "recording" ELSE "idle"
              ELSE "unavailable"]

\* Every entity of the listed cameras updates itself.
async_signal_device_id_update(entry, cams) ==
    [entry EXCEPT !.entities =
        [k \in 1..Len(entry.entities) |->
            IF entry.entities[k].camera \in cams
            THEN _async_update_device_from_protect(entry, entry.entities[k])
            ELSE entry.entities[k]]]

\* The states the enabled entities of the listed cameras have.
StatesOf(entry, cams) ==
    {entry.entities[k].state :
        k \in {n \in 1..Len(entry.entities) :
                  /\ ~entry.entities[n].disabled
                  /\ entry.entities[n].camera \in cams}}

ProtectEvent(op, camera, arg, was) ==
    [op |-> op, camera |-> camera, arg |-> arg, was |-> was]

\* At most MaxCameras cameras are set up, at most MaxLiveCameras are updated.
MaxCameras == 4

MaxLiveCameras == 1

\* The camera of the update tests (RTSP on the first channel only) and
\* cameras with RTSP on another channel only, on none, and without channels.
LiveLayouts ==
    {<< >>, <<TRUE, FALSE, FALSE>>, <<FALSE, TRUE, FALSE>>,
     <<FALSE, FALSE, FALSE>>}

\* The cameras of test_basic_setup and test_missing_channels: those, and a
\* camera with RTSP on all three channels.
ChannelLayouts == LiveLayouts \cup {<<TRUE, TRUE, TRUE>>}

\* The bootstraps of up to max cameras in which at most one camera has RTSP
\* on more than one channel, as in test_basic_setup.
Bootstraps(layouts, max) ==
    {b \in UNION {[1..n -> {Camera(l) : l \in layouts}] : n \in 0..max} :
        \A i \in DOMAIN b : \A j \in DOMAIN b :
            (/\ \E x \in DOMAIN b[i].channels : \E y \in DOMAIN b[i].channels :
                    x # y /\ b[i].channels[x] /\ b[i].channels[y]
             /\ \E x \in DOMAIN b[j].channels : \E y \in DOMAIN b[j].channels :
                    x # y /\ b[j].channels[x] /\ b[j].channels[y]) => i = j}

\* What an update may report of a camera: its connection state and whether
\* it is recording.
CameraReports ==
    [state : {"CONNECTED", "DISCONNECTED"}, is_recording : BOOLEAN]

VacuumIdle ==
    /\ self = None
    /\ running = << >>
    /\ last = None
    /\ media = NoTriggers
    /\ listing = Listing(<< >>)
    /\ overkiz = OverkizData(<< >>)

ProtectSetupInit ==
    /\ \E cameras \in Bootstraps(ChannelLayouts, MaxCameras) :
           protect = ProtectEntry(cameras)
    /\ VacuumIdle

ProtectInit ==
    /\ \E cameras \in Bootstraps(LiveLayouts, MaxLiveCameras) :
           protect = ProtectEntry(cameras)
    /\ VacuumIdle

\* The config entry is set up: the entities are created, and the enabled
\* ones are added and write their first state.
ProtectSetup ==
    /\ ~protect.loaded
    /\ protect' =
           async_signal_device_id_update(
               [protect EXCEPT
                    !.entities = async_setup_entry(protect.cameras, 1),
                    !.loaded = TRUE,
                    !.event = ProtectEvent("async_setup_entry", 0, "", {})],
               1..Len(protect.cameras))
    /\ UNCHANGED <<self, running, last, media, listing, overkiz>>

\* enable_entity of the tests: the registry entry of a disabled entity is
\* enabled and the config entry is reloaded, so the setup runs again with a
\* successful first update and every enabled entity is added and writes its
\* state.
EnableEntity ==
    /\ protect.loaded
    /\ \E k \in 1..Len(protect.entities) :
           /\ protect.entities[k].disabled
           /\ protect' =
                  async_signal_device_id_update(
                      [protect EXCEPT
                           !.entities[k].disabled = FALSE,
                           !.last_update_success = TRUE,
                           !.event = ProtectEvent("enable_entity", 0, "",
                                         StatesOf(protect,
                                                  1..Len(protect.cameras)))],
                      1..Len(protect.cameras))
    /\ UNCHANGED <<self, running, last, media, listing, overkiz>>

\* The cameras with what an update reports of each.
Reported(cameras, reports) ==
    [i \in 1..Len(cameras) |->
        [cameras[i] EXCEPT !.state = reports[i].state,
                           !.is_recording = reports[i].is_recording]]

\* The interval update: api.update() raises NvrError, or returns the new
\* bootstrap; either way every entity updates itself.
IntervalUpdate ==
    /\ protect.loaded
    /\ \/ protect' =
              async_signal_device_id_update(
                  [protect EXCEPT
                       !.last_update_success = FALSE,
                       !.event =
                           ProtectEvent("async_refresh", 0, "NvrError",
                               StatesOf(protect, 1..Len(protect.cameras)))],
                  1..Len(protect.cameras))
       \/ \E reports \in [1..Len(protect.cameras) -> CameraReports] :
              protect' =
                  async_signal_device_id_update(
                      [protect EXCEPT
                           !.cameras = Reported(protect.cameras, reports),
                           !.last_update_success = TRUE,
                           !.event =
                               ProtectEvent("async_refresh", 0, "",
                                   StatesOf(protect,
                                            1..Len(protect.cameras)))],
                      1..Len(protect.cameras))
    /\ UNCHANGED <<self, running, last, media, listing, overkiz>>

\* The update_entity service of test_camera_generic_update, called while the
\* last update succeeded: api.update() returns None, there is nothing to
\* process and no entity writes a state.
GenericUpdate ==
    /\ protect.loaded
    /\ protect.last_update_success
    /\ protect' =
           [protect EXCEPT
                !.event = ProtectEvent("async_update", 0, "None",
                              StatesOf(protect, 1..Len(protect.cameras)))]
    /\ UNCHANGED <<self, running, last, media, listing, overkiz>>

\* A websocket message carries a camera's new object, with its connection
\* state and whether it is recording; the bootstrap takes it and the
\* camera's entities update themselves.
WsUpdate ==
    /\ protect.loaded
    /\ \E i \in 1..Len(protect.cameras) :
       \E report \in CameraReports :
           protect' =
               async_signal_device_id_update(
                   [protect EXCEPT
                        !.cameras[i].state = report.state,
                        !.cameras[i].is_recording = report.is_recording,
                        !.event = ProtectEvent("_async_process_ws_message",
                                               i, report.state,
                                               StatesOf(protect, {i}))],
                   {i})
    /\ UNCHANGED <<self, running, last, media, listing, overkiz>>

ProtectSetupNext ==
    \/ ProtectSetup
    \/ EnableEntity

ProtectSetupSpec == ProtectSetupInit /\ [][ProtectSetupNext]_vars

ProtectNext ==
    \/ ProtectSetup
    \/ EnableEntity
    \/ IntervalUpdate
    \/ GenericUpdate
    \/ WsUpdate

ProtectSpec == ProtectInit /\ [][ProtectNext]_vars

\* C15: once the entry is set up, a failed interval update leaves every
\* enabled camera entity 'unavailable', and so does a websocket message
\* reporting its camera DISCONNECTED; a successful interval update leaves
\* the entities of every connected camera that is not recording 'idle'
\* whatever they were before, and so does a websocket message reporting the
\* camera CONNECTED and not recording while the last interval update
\* succeeded.  An available entity of a recording camera is 'recording'.
C15_AvailabilityNotSticky ==
    protect.loaded =>
        LET all == 1..Len(protect.cameras)
            connected == {i \in all : protect.cameras[i].state = "CONNECTED"}
            quiet == {i \in connected : ~protect.cameras[i].is_recording}
            e == protect.event
        IN  /\ (e.op = "async_refresh" /\ e.arg = "NvrError") =>
                   StatesOf(protect, all) \subseteq {"unavailable"}
            /\ (e.op = "_async_process_ws_message"
                    /\ e.arg = "DISCONNECTED") =>
                   StatesOf(protect, {e.camera}) \subseteq {"unavailable"}
            /\ (e.op = "async_refresh" /\ e.arg = "") =>
                   /\ StatesOf(protect, quiet) \subseteq {"idle"}
                   /\ StatesOf(protect, connected \ quiet)
                          \subseteq {"recording"}
            /\ (e.op = "_async_process_ws_message" /\ e.arg = "CONNECTED"
                    /\ protect.last_update_success) =>
                   /\ StatesOf(protect, {e.camera} \cap quiet)
                          \subseteq {"idle"}
                   /\ StatesOf(protect, {e.camera} \ quiet)
                          \subseteq {"recording"}

\* C15 witness: the entity of a camera was 'unavailable' and a successful
\* interval update has just returned it to 'idle'.
C15_Witness ==
    /\ protect.loaded
    /\ protect.event.op = "async_refresh"
    /\ protect.event.arg = ""
    /\ protect.event.was = {"unavailable"}
    /\ StatesOf(protect, 1..Len(protect.cameras)) = {"idle"}

\* The indices of a camera's entities.
EntitiesOf(entry, i) ==
    {k \in 1..Len(entry.entities) : entry.entities[k].camera = i}

\* The four cameras of test_basic_setup: RTSP on the first channel only, on
\* the second only, on all three, on none.
BasicSetupCameras ==
    <<Camera(<<TRUE, FALSE, FALSE>>), Camera(<<FALSE, TRUE, FALSE>>),
      Camera(<<TRUE, TRUE, TRUE>>), Camera(<<FALSE, FALSE, FALSE>>)>>

\* C16: after setup, a camera without channels has no entity; a camera with
\* channels none of which has RTSP enabled has exactly one entity, for
\* channel 0, without a stream and enabled by default; any other camera has,
\* for each RTSP-enabled channel and for no other, exactly one RTSPS and one
\* RTSP entity, and of these only the RTSPS entity of the first RTSP-enabled
\* channel is enabled by default.  The setup registers every entity that is
\* not enabled by default disabled, and an entity has a state exactly while
\* it is not disabled.  The four cameras of test_basic_setup give 11
\* entities, 4 of them enabled by default.
C16_SetupEntities ==
    protect.loaded =>
        LET E == protect.entities
        IN  /\ \A i \in 1..Len(protect.cameras) :
                 LET c == protect.cameras[i].channels
                     on == {j \in 1..Len(c) : c[j]}
                     mine == EntitiesOf(protect, i)
                 IN  /\ c = << >> => mine = {}
                     /\ (c # << >> /\ on = {}) =>
                            /\ Cardinality(mine) = 1
                            /\ \A k \in mine :
                                   /\ E[k].channel = 0
                                   /\ ~E[k].stream
                                   /\ E[k].enabled_default
                     /\ on # {} =>
                            /\ Cardinality(mine) = 2 * Cardinality(on)
                            /\ \A k \in mine :
                                   /\ E[k].channel + 1 \in on
                                   /\ E[k].stream
                                   /\ E[k].enabled_default <=>
                                          /\ E[k].secure
                                          /\ \A j \in on : E[k].channel < j
                            /\ \A j \in on : \A secure \in BOOLEAN :
                                   Cardinality(
                                       {k \in mine :
                                           /\ E[k].channel = j - 1
                                           /\ E[k].secure = secure}) = 1
            /\ protect.event.op = "async_setup_entry" =>
                   \A k \in 1..Len(E) : E[k].disabled <=> ~E[k].enabled_default
            /\ \A k \in 1..Len(E) : E[k].enabled_default => ~E[k].disabled
            /\ \A k \in 1..Len(E) : E[k].disabled <=> E[k].state = ""
            /\ protect.cameras = BasicSetupCameras =>
                   /\ Len(E) = 11
                   /\ Cardinality({k \in 1..Len(E) : E[k].enabled_default}) = 4
                   /\ protect.event.op = "async_setup_entry" =>
                          Cardinality({k \in 1..Len(E) : E[k].disabled}) = 7

\* C16 witness: the four cameras of test_basic_setup have just been set up,
\* the third has six entities and seven entities are disabled.
C16_Witness ==
    /\ protect.loaded
    /\ protect.event.op = "async_setup_entry"
    /\ protect.cameras = BasicSetupCameras
    /\ Len(protect.entities) = 11
    /\ Cardinality(EntitiesOf(protect, 3)) = 6
    /\ Cardinality({k \in 1..Len(protect.entities) :
                       protect.entities[k].disabled}) = 7

ReconciliationOps ==
    {"_update_state", "_update_battery_level", "_update_fan_speed",
     "none_on_template_error", "_update_available"}

\* C17: a coroutine that resumes from its script run, whether the run
\* returned or raised, leaves the entity exactly as it finds it, so what a
\* reconciliation wrote during the run stays; and a reconciliation handler
\* runs to its end in one step, never awaiting a script run.
C17_NoWriteAfterResume ==
    [][/\ \A op \in ActionOps : Resumed(op) => self' = self
       /\ last'.op \in ReconciliationOps =>
              /\ last'.status \in {"returned", "raised"}
              /\ last'.ran = 0
              /\ running' = running]_vars

\* C17 witness: set_fan_speed("low") has completed after its script run
\* returned, and the fan speed is the "high" that a reconciliation stored
\* while it was suspended.
C17_Witness ==
    /\ last.op = "async_set_fan_speed"
    /\ last.arg = low
    /\ last.status = "returned"
    /\ last.ran = 1
    /\ running = << >>
    /\ self._fan_speed = high

\* C18: right after construction the state, the battery level and the fan
\* speed are None; and in every reachable state the state is None,
\* "unknown" or one of the six valid states.
C18_StateDomain ==
    /\ last.op = "__init__" =>
           /\ self._state = None
           /\ self._battery_level = None
           /\ self._fan_speed = None
    /\ self._state \in {None, STATE_UNKNOWN} \cup ValidTokens

\* C18 witness: the state template rendered "Idle", which is not a valid
\* state, on an entity whose battery level is 100; the state is None.
C18_Witness ==
    /\ last.op = "_update_state"
    /\ last.arg = PyStr(<<"I", "d", "l", "e">>)
    /\ self._state = None
    /\ self._battery_level = PyInt(100)

\* C19: a state reconciliation leaves the battery level and the fan speed
\* as they were; a battery reconciliation (of a rendered value or of an
\* evaluation failure) leaves the state and the fan speed as they were; a
\* fan speed reconciliation of a rendered value leaves the state and the
\* battery level as they were; and start, pause, stop, return_to_base,
\* clean_spot and locate, whether their script is bound or not, leave all
\* three as they were, when called and when they resume.
C19_WritePathsSeparate ==
    [][/\ last'.op = "_update_state" =>
              /\ self'._battery_level = self._battery_level
              /\ self'._fan_speed = self._fan_speed
       /\ last'.op \in {"_update_battery_level", "none_on_template_error"} =>
              /\ self'._state = self._state
              /\ self'._fan_speed = self._fan_speed
       /\ (last'.op = "_update_fan_speed" /\ ~IsTemplateError(last'.arg)) =>
              /\ self'._state = self._state
              /\ self'._battery_level = self._battery_level
       /\ last'.op \in PlainActionOps =>
              /\ self'._state = self._state
              /\ self'._battery_level = self._battery_level
              /\ self'._fan_speed = self._fan_speed]_vars

\* C19 witness: the battery template rendered 101 while the state was
\* "cleaning" and the fan speed "low"; only the battery level was cleared.
C19_Witness ==
    /\ last.op = "_update_battery_level"
    /\ last.arg = PyInt(101)
    /\ self._battery_level = None
    /\ self._state = STATE_CLEANING
    /\ self._fan_speed = low

(***************************************************************************)
(* Media player device triggers.  A trigger config is a record with the    *)
(* keys platform, device_id, domain, entity_id and type, and the key "for" *)
(* when a duration was given; a duration is [seconds].  media.calls lists  *)
(* the async_attach_trigger coroutines that are suspended, each with the   *)
(* config it was called with, its state_config and the call it awaits;     *)
(* media.attached lists, for each trigger attached so far, the config it   *)
(* was attached from, the state trigger config the state trigger platform  *)
(* was handed and the platform_type it was attached with.                  *)
(***************************************************************************)
STATE_ON == PyStr(<<"o", "n">>)

STATE_OFF == PyStr(<<"o", "f", "f">>)

STATE_PLAYING == PyStr(<<"p", "l", "a", "y", "i", "n", "g">>)

TRIGGER_TYPES == {"turned_on", "turned_off", "idle", "paused", "playing"}

\* Mutant: the duration is copied when it is truthy, not when it is present.
async_attach_trigger_truthy_for(config) ==
    LET to_state ==
            IF config.type = "turned_on" THEN STATE_ON
            ELSE IF config.type = "turned_off" THEN STATE_OFF
            ELSE IF config.type = "idle" THEN STATE_IDLE
            ELSE IF config.type = "paused" THEN STATE_PAUSED
            ELSE STATE_PLAYING
    IN IF "for" \in DOMAIN config /\ config.for.seconds # 0
       THEN [platform |-> "state", entity_id |-> config.entity_id,
             to |-> to_state, for |-> config.for]
       ELSE [platform |-> "state", entity_id |-> config.entity_id,
             to |-> to_state]

\* The state trigger config async_attach_trigger builds before it awaits the
\* state trigger platform's validation.
async_attach_trigger(config) ==
    LET to_state ==
            IF config.type = "turned_on" THEN STATE_ON
            ELSE IF config.type = "turned_off" THEN STATE_OFF
            ELSE IF config.type = "idle" THEN STATE_IDLE
            ELSE IF config.type = "paused" THEN STATE_PAUSED
            ELSE STATE_PLAYING
    IN IF "for" \in DOMAIN config
       THEN [platform |-> "state", entity_id |-> config.entity_id,
             to |-> to_state, for |-> config.for]
       ELSE [platform |-> "state", entity_id |-> config.entity_id,
             to |-> to_state]

\* At most MaxAttached triggers are attached.
MaxAttached == 2

\* Trigger types: the five of TRIGGER_TYPES and one the schema would reject.
TypeArgs == TRIGGER_TYPES \cup {"stopped"}

EntityIds == {"media_player.kitchen", "media_player.den"}

\* Durations: zero (a falsy timedelta) and five seconds.
Durations == {[seconds |-> 0], [seconds |-> 5]}

TriggerConfigs ==
    [platform : {"device"}, device_id : {"abcdef"}, domain : {"media_player"},
     entity_id : EntityIds, type : TypeArgs]
    \cup [platform : {"device"}, device_id : {"abcdef"},
          domain : {"media_player"}, entity_id : EntityIds, type : TypeArgs,
          for : Durations]

\* state_trigger.async_validate_trigger_config: the state trigger schema
\* turns the entity id into a list of entity ids and keeps the other keys.
async_validate_trigger_config(state_config) ==
    [state_config EXCEPT !.entity_id = <<@>>]

MediaInit ==
    /\ media = NoTriggers
    /\ self = None
    /\ running = << >>
    /\ last = None
    /\ protect = ProtectEntry(<< >>)
    /\ listing = Listing(<< >>)
    /\ overkiz = OverkizData(<< >>)

\* async_attach_trigger is called: it builds state_config and awaits its
\* validation.
AttachTrigger ==
    /\ Len(media.calls) + Len(media.attached) < MaxAttached
    /\ \E config \in TriggerConfigs :
           media' =
               [media EXCEPT
                    !.calls =
                        Append(@, [config |-> config,
                                   state_config |->
                                       async_attach_trigger(config),
                                   awaits |->
                                       "async_validate_trigger_config"])]
    /\ UNCHANGED <<self, running, last, protect, listing, overkiz>>

\* The validation returns to a suspended call: state_config becomes what it
\* returned, and the call hands that to state_trigger.async_attach_trigger
\* and awaits it.
ValidateReturns ==
    /\ \E i \in 1..Len(media.calls) :
           /\ media.calls[i].awaits = "async_validate_trigger_config"
           /\ media' =
                  [media EXCEPT
                       !.calls[i].state_config =
                           async_validate_trigger_config(@),
                       !.calls[i].awaits = "async_attach_trigger"]
    /\ UNCHANGED <<self, running, last, protect, listing, overkiz>>

\* state_trigger.async_attach_trigger returns to a suspended call: the
\* trigger is attached and the call returns.
AttachReturns ==
    /\ \E i \in 1..Len(media.calls) :
           /\ media.calls[i].awaits = "async_attach_trigger"
           /\ media' =
                  [calls |-> Remove(media.calls, i),
                   attached |->
                       Append(media.attached,
                              [config |-> media.calls[i].config,
                               state_config |-> media.calls[i].state_config,
                               platform_type |-> "device"])]
    /\ UNCHANGED <<self, running, last, protect, listing, overkiz>>

MediaNext ==
    \/ AttachTrigger
    \/ ValidateReturns
    \/ AttachReturns

MediaSpec == MediaInit /\ [][MediaNext]_vars

\* The state a trigger type stands for.
ToState(type) ==
    CASE type = "turned_on" -> PyStr(<<"o", "n">>)
      [] type = "turned_off" -> PyStr(<<"o", "f", "f">>)
      [] type = "idle" -> PyStr(<<"i", "d", "l", "e">>)
      [] type = "paused" -> PyStr(<<"p", "a", "u", "s", "e", "d">>)
      [] OTHER -> PyStr(<<"p", "l", "a", "y", "i", "n", "g">>)

\* C20: the state trigger config every call builds, the one it hands the
\* state trigger platform once validated, and the one every attached trigger
\* was attached with, are for the configured entity (as a list of that one
\* entity once validated), have the target state on for turned_on, off for
\* turned_off, idle for idle, paused for paused and playing for playing and
\* for any other type, and have a "for" duration exactly when the device
\* trigger config has one, then the same one.  Triggers are attached with
\* platform_type "device".
C20_TypeToState ==
    /\ \A k \in 1..Len(media.calls) :
           LET c == media.calls[k].config
               s == media.calls[k].state_config
           IN  /\ s.platform = "state"
               /\ s.entity_id =
                      IF media.calls[k].awaits
                             = "async_validate_trigger_config"
                      THEN c.entity_id ELSE <<c.entity_id>>
               /\ s.to = ToState(c.type)
               /\ "for" \in DOMAIN s <=> "for" \in DOMAIN c
               /\ "for" \in DOMAIN c => s.for = c.for
               /\ DOMAIN s \subseteq {"platform", "entity_id", "to", "for"}
    /\ \A k \in 1..Len(media.attached) :
           LET c == media.attached[k].config
               s == media.attached[k].state_config
           IN  /\ s.platform = "state"
               /\ s.entity_id = <<c.entity_id>>
               /\ s.to = ToState(c.type)
               /\ "for" \in DOMAIN s <=> "for" \in DOMAIN c
               /\ "for" \in DOMAIN c => s.for = c.for
               /\ DOMAIN s \subseteq {"platform", "entity_id", "to", "for"}
               /\ media.attached[k].platform_type = "device"

\* C20 witness: a turned_off trigger with a zero duration was called first
\* and attached second, after a trigger of a type outside TRIGGER_TYPES
\* without a duration that was called while the first awaited.
C20_Witness ==
    /\ media.calls = << >>
    /\ Len(media.attached) = 2
    /\ media.attached[2].config.type = "turned_off"
    /\ "for" \in DOMAIN media.attached[2].config
    /\ media.attached[2].config.for.seconds = 0
    /\ media.attached[2].state_config.to = STATE_OFF
    /\ "for" \in DOMAIN media.attached[2].state_config
    /\ media.attached[1].config.type = "stopped"
    /\ "for" \notin DOMAIN media.attached[1].config
    /\ media.attached[1].state_config.to = STATE_PLAYING

(***************************************************************************)
(* Listing the media player device triggers.  A registry entry is          *)
(* [entity_id, domain, device_id]; listing holds the registry, what a      *)
(* suspended async_get_triggers call awaits, the device id it was called   *)
(* with and, once it returned, the list it returned.  TRIGGER_TYPES is a   *)
(* set, so the order in which the comprehension visits it is an input:     *)
(* order lists its members.                                                *)
(***************************************************************************)
DOMAIN_MEDIA_PLAYER == "media_player"

\* entity_registry.async_entries_for_device: the entries of the device.
async_entries_for_device(registry, device_id) ==
    SelectSeq(registry, LAMBDA entry : entry.device_id = device_id)

RECURSIVE TriggersFrom_any_domain(_, _, _, _)
RECURSIVE TriggersFrom(_, _, _, _)
\* Mutant: the entry's domain is not looked at.
TriggersFrom_any_domain(entries, i, device_id, order) ==
    IF i > Len(entries) THEN << >>
    ELSE [k \in 1..Len(order) |->
             [platform |-> "device", device_id |-> device_id,
              domain |-> DOMAIN_MEDIA_PLAYER,
              entity_id |-> entries[i].entity_id, type |-> order[k]]]
         \o TriggersFrom_any_domain(entries, i + 1, device_id, order)

\* The loop of async_get_triggers over the entries from index i on.
TriggersFrom(entries, i, device_id, order) ==
    IF i > Len(entries) THEN << >>
    ELSE IF entries[i].domain # DOMAIN_MEDIA_PLAYER
    THEN TriggersFrom(entries, i + 1, device_id, order)
    ELSE [k \in 1..Len(order) |->
             [platform |-> "device", device_id |-> device_id,
              domain |-> DOMAIN_MEDIA_PLAYER,
              entity_id |-> entries[i].entity_id, type |-> order[k]]]
         \o TriggersFrom(entries, i + 1, device_id, order)

async_get_triggers(registry, device_id, order) ==
    TriggersFrom(async_entries_for_device(registry, device_id), 1,
                 device_id, order)

\* The registry holds at most MaxEntries entries.
MaxEntries == 3

DeviceIds == {"abcdef", "123456"}

\* Entries a registry may hold: media players and other entities of two
\* devices.
RegistryEntries ==
    {[entity_id |-> "media_player.kitchen", domain |-> "media_player",
      device_id |-> "abcdef"],
     [entity_id |-> "media_player.den", domain |-> "media_player",
      device_id |-> "abcdef"],
     [entity_id |-> "light.kitchen", domain |-> "light",
      device_id |-> "abcdef"],
     [entity_id |-> "media_player.attic", domain |-> "media_player",
      device_id |-> "123456"],
     [entity_id |-> "sensor.attic", domain |-> "sensor",
      device_id |-> "123456"]}

\* Registries: up to MaxEntries entries, no entity id twice.
Registries ==
    UNION {{r \in [1..n -> RegistryEntries] :
               \A i \in 1..n : \A j \in 1..n : i # j => r[i] # r[j]} :
           n \in 0..MaxEntries}

\* The orders in which TRIGGER_TYPES can be visited.
Orders ==
    {order \in [1..Cardinality(TRIGGER_TYPES) -> TRIGGER_TYPES] :
        \A i \in DOMAIN order : \A j \in DOMAIN order :
            i # j => order[i] # order[j]}

ListingInit ==
    /\ \E registry \in Registries : listing = Listing(registry)
    /\ self = None
    /\ running = << >>
    /\ last = None
    /\ protect = ProtectEntry(<< >>)
    /\ media = NoTriggers
    /\ overkiz = OverkizData(<< >>)

\* async_get_triggers is called, once for a registry, and awaits the
\* entity registry.
GetTriggers ==
    /\ ~listing.called
    /\ listing.awaits = ""
    /\ \E device_id \in DeviceIds :
           listing' = [listing EXCEPT
                           !.awaits = "async_get_registry",
                           !.device_id = device_id]
    /\ UNCHANGED <<self, running, last, protect, media, overkiz>>

\* The registry comes back to the suspended call, which builds the list and
\* returns it.
RegistryReturns ==
    /\ listing.awaits = "async_get_registry"
    /\ \E order \in Orders :
           listing' = [listing EXCEPT
                           !.awaits = "",
                           !.called = TRUE,
                           !.triggers = async_get_triggers(listing.registry,
                                                           listing.device_id,
                                                           order)]
    /\ UNCHANGED <<self, running, last, protect, media, overkiz>>

ListingNext ==
    \/ GetTriggers
    \/ RegistryReturns

ListingSpec == ListingInit /\ [][ListingNext]_vars

\* The indices of the registry entries that belong to the device asked for
\* and are media players.
MediaPlayersOfDevice ==
    {i \in 1..Len(listing.registry) :
        /\ listing.registry[i].device_id = listing.device_id
        /\ listing.registry[i].domain = "media_player"}

\* C21: the list async_get_triggers returned holds, for every media player
\* entry of the device and each of the five trigger types, exactly one
\* trigger, carrying the device id, the domain and the entry's entity id;
\* it holds nothing else, so nothing for an entry of another domain or of
\* another device; its length is five times the number of media player
\* entries of the device.
C21_FiveTriggersPerEntity ==
    listing.called =>
        LET T == listing.triggers
            R == listing.registry
        IN  /\ \A i \in MediaPlayersOfDevice :
               \A type \in {"turned_on", "turned_off", "idle", "paused",
                            "playing"} :
                   Cardinality(
                       {k \in 1..Len(T) :
                           T[k] = [platform |-> "device",
                                   device_id |-> listing.device_id,
                                   domain |-> "media_player",
                                   entity_id |-> R[i].entity_id,
                                   type |-> type]}) = 1
            /\ \A k \in 1..Len(T) :
                   \E i \in MediaPlayersOfDevice :
                       T[k].entity_id = R[i].entity_id
            /\ Len(T) = 5 * Cardinality(MediaPlayersOfDevice)

\* C21 witness: the device has two media players and a light; ten triggers
\* were returned.
C21_Witness ==
    /\ listing.called
    /\ listing.device_id = "abcdef"
    /\ Len(listing.registry) = 3
    /\ \E i \in 1..3 : listing.registry[i].entity_id = "light.kitchen"
    /\ Cardinality(MediaPlayersOfDevice) = 2
    /\ Len(listing.triggers) = 10

(***************************************************************************)
(* Overkiz binary sensors.  A device is                                    *)
(* [widget, ui_class, definition, states]: definition lists the qualified  *)
(* names of the states the device type declares, states maps the names of  *)
(* the states the device currently has to their values.  An entity is      *)
(* [device_url, description]; a device's url is its index in the           *)
(* coordinator's data.                                                     *)
(***************************************************************************)
\* OverkizCommandParam members, str-valued enum members of pyoverkiz.
DETECTED == PyStr(<<"d", "e", "t", "e", "c", "t", "e", "d">>)

PERSON_INSIDE ==
    PyStr(<<"p", "e", "r", "s", "o", "n", "I", "n", "s", "i", "d", "e">>)

OPEN == PyStr(<<"o", "p", "e", "n">>)

\* Each description with the parameter its value_fn compares with.
BINARY_SENSOR_DESCRIPTIONS ==
    <<[key |-> "core:RainState", name |-> "Rain", param |-> DETECTED],
      [key |-> "core:SmokeState", name |-> "Smoke", param |-> DETECTED],
      [key |-> "core:WaterDetectionState", name |-> "Water",
       param |-> DETECTED],
      [key |-> "core:GasDetectionState", name |-> "Gas", param |-> DETECTED],
      [key |-> "core:OccupancyState", name |-> "Occupancy",
       param |-> PERSON_INSIDE],
      [key |-> "core:VibrationState", name |-> "Vibration",
       param |-> DETECTED],
      [key |-> "core:ContactState", name |-> "Contact", param |-> OPEN],
      [key |-> "core:AssemblyState", name |-> "Assembly", param |-> OPEN],
      [key |-> "io:VibrationDetectedState", name |-> "Vibration",
       param |-> DETECTED]>>

\* description.value_fn(state): state == cast(str, <param>).
value_fn(description, state) == PyEq(state, description.param)

\* The widgets and ui classes for which no entity is made (the list is
\* defined in the component's const module; two members stand for it).
IGNORED_OVERKIZ_DEVICES == {"ProtocolGateway", "Pod"}

\* key_supported_states.get(name): the description stored under the name
\* (the last of the table with that key), or None.
key_supported_states_get(name) ==
    LET hits == {i \in 1..Len(BINARY_SENSOR_DESCRIPTIONS) :
                    BINARY_SENSOR_DESCRIPTIONS[i].key = name}
    IN IF hits = {} THEN None
       ELSE BINARY_SENSOR_DESCRIPTIONS[
                CHOOSE i \in hits : \A j \in hits : j <= i]

RECURSIVE StateEntities(_, _, _)
\* The inner loop of async_setup_entry over a device's declared states.
StateEntities(device_url, definition, j) ==
    IF j > Len(definition) THEN << >>
    ELSE LET description == key_supported_states_get(definition[j])
         IN (IF description = None THEN << >>
             ELSE <<[device_url |-> device_url,
                     description |-> description]>>)
            \o StateEntities(device_url, definition, j + 1)

RECURSIVE OverkizEntities_ui_class_only(_, _)
RECURSIVE OverkizEntities(_, _)
\* Mutant: only the ui class is compared with the ignored devices.
OverkizEntities_ui_class_only(devices, i) ==
    IF i > Len(devices) THEN << >>
    ELSE (IF devices[i].ui_class \in IGNORED_OVERKIZ_DEVICES
          THEN << >>
          ELSE StateEntities(i, devices[i].definition, 1))
         \o OverkizEntities_ui_class_only(devices, i + 1)

\* The entities async_setup_entry makes for the devices from index i on.
OverkizEntities(devices, i) ==
    IF i > Len(devices) THEN << >>
    ELSE (IF \/ devices[i].widget \in IGNORED_OVERKIZ_DEVICES
             \/ devices[i].ui_class \in IGNORED_OVERKIZ_DEVICES
          THEN << >>
          ELSE StateEntities(i, devices[i].definition, 1))
         \o OverkizEntities(devices, i + 1)

\* Mutant: a state whose value is None counts as no state.
is_on_none_value_is_no_state(device, description) ==
    IF /\ description.key \in DOMAIN device.states
       /\ device.states[description.key] # None
    THEN PyBool(value_fn(description, device.states[description.key]))
    ELSE None

\* OverkizBinarySensor.is_on of an entity with this device and description.
is_on(device, description) ==
    IF description.key \in DOMAIN device.states
    THEN PyBool(value_fn(description, device.states[description.key]))
    ELSE None

\* The coordinator holds at most MaxDevices devices.
MaxDevices == 2

\* Widget and ui class: neither ignored, both, the widget only, the ui class
\* only.
DeviceKinds ==
    {<<"ContactSensor", "ContactSensor">>, <<"Pod", "Pod">>,
     <<"Pod", "Generic">>, <<"HomekitStack", "ProtocolGateway">>}

\* Declared states: one or no state with a description, with or without a
\* state that has none.
Definitions ==
    {<<"core:RainState">>, <<"core:NameState", "core:ContactState">>,
     <<"core:OccupancyState">>, <<"core:NameState">>}

\* Values a state may take: the three parameters, another string, None.
StateValues ==
    {DETECTED, PERSON_INSIDE, OPEN, PyStr(<<"c", "l", "o", "s", "e", "d">>),
     None}

\* A device that has no state yet.
Device(kind, definition) ==
    [widget |-> kind[1], ui_class |-> kind[2], definition |-> definition,
     states |-> [name \in {} |-> None]]

\* Devices: a device that is not ignored declares any of Definitions, an
\* ignored one the rain state, for which a description exists.
Devices ==
    {Device(<<"ContactSensor", "ContactSensor">>, definition) :
        definition \in Definitions}
    \cup {Device(kind, <<"core:RainState">>) : kind \in DeviceKinds}

DeviceLists == UNION {[1..n -> Devices] : n \in 0..MaxDevices}

OverkizInit ==
    /\ \E devices \in DeviceLists : overkiz = OverkizData(devices)
    /\ self = None
    /\ running = << >>
    /\ last = None
    /\ protect = ProtectEntry(<< >>)
    /\ media = NoTriggers
    /\ listing = Listing(<< >>)

\* async_setup_entry hands the entities to async_add_entities.
OverkizSetup ==
    /\ ~overkiz.loaded
    /\ overkiz' = [overkiz EXCEPT
                       !.entities = OverkizEntities(overkiz.devices, 1),
                       !.loaded = TRUE]
    /\ UNCHANGED <<self, running, last, protect, media, listing>>

\* The coordinator receives a new value for a declared state of a device.
DeviceStateChanged ==
    /\ overkiz.loaded
    /\ \E i \in 1..Len(overkiz.devices) :
       \E j \in 1..Len(overkiz.devices[i].definition) :
       \E value \in StateValues :
           LET device == overkiz.devices[i]
               name == device.definition[j]
           IN overkiz' =
                  [overkiz EXCEPT !.devices[i].states =
                      [n \in DOMAIN device.states \cup {name} |->
                          IF n = name THEN value ELSE device.states[n]]]
    /\ UNCHANGED <<self, running, last, protect, media, listing>>

OverkizNext ==
    \/ OverkizSetup
    \/ DeviceStateChanged

OverkizSpec == OverkizInit /\ [][OverkizNext]_vars

\* The parameter the description table gives for a key.
ExpectedParam(key) ==
    CASE key \in {"core:RainState", "core:SmokeState",
                  "core:WaterDetectionState", "core:GasDetectionState",
                  "core:VibrationState", "io:VibrationDetectedState"} ->
             PyStr(<<"d", "e", "t", "e", "c", "t", "e", "d">>)
      [] key = "core:OccupancyState" ->
             PyStr(<<"p", "e", "r", "s", "o", "n", "I", "n", "s", "i", "d",
                     "e">>)
      [] key \in {"core:ContactState", "core:AssemblyState"} ->
             PyStr(<<"o", "p", "e", "n">>)

\* C22: for every binary sensor that setup made, is_on is None while its
\* device has no state under the description's key, True while the state's
\* value is the parameter the table gives for that key, and False for any
\* other value; every description of the table compares with the parameter
\* the table gives for its key; and every binary sensor belongs to a device
\* whose widget and ui class are both not ignored, for a state the device
\* declares.
C22_BinarySensorIsOn ==
    /\ \A d \in 1..Len(BINARY_SENSOR_DESCRIPTIONS) :
       \A value \in StateValues :
           value_fn(BINARY_SENSOR_DESCRIPTIONS[d], value) <=>
               value = ExpectedParam(BINARY_SENSOR_DESCRIPTIONS[d].key)
    /\ overkiz.loaded =>
           \A k \in 1..Len(overkiz.entities) :
               LET entity == overkiz.entities[k]
                   device == overkiz.devices[entity.device_url]
                   key == entity.description.key
               IN  /\ is_on(device, entity.description) =
                          IF key \notin DOMAIN device.states THEN None
                          ELSE IF device.states[key] = ExpectedParam(key)
                          THEN PyBool(TRUE)
                          ELSE PyBool(FALSE)
                   /\ device.widget \notin IGNORED_OVERKIZ_DEVICES
                   /\ device.ui_class \notin IGNORED_OVERKIZ_DEVICES
                   /\ \E j \in 1..Len(device.definition) :
                          device.definition[j] = key

\* C22 witness: a contact sensor whose contact state is "open" is on, and
\* a second device, whose widget is ignored, declares a rain state but has
\* no binary sensor.
C22_Witness ==
    /\ overkiz.loaded
    /\ Len(overkiz.devices) = 2
    /\ Len(overkiz.entities) = 1
    /\ overkiz.entities[1].device_url = 1
    /\ overkiz.entities[1].description.key = "core:ContactState"
    /\ "core:ContactState" \in DOMAIN overkiz.devices[1].states
    /\ is_on(overkiz.devices[1], overkiz.entities[1].description)
           = PyBool(TRUE)
    /\ overkiz.devices[2].widget = "Pod"
    /\ overkiz.devices[2].ui_class = "Generic"
    /\ overkiz.devices[2].definition = <<"core:RainState">>

====
